---- MODULE Spec2Model ----
(***************************************************************************)
(* Model of src/main.py: the Sentinel-2 downloader.  One run of main()     *)
(* walks the configured region codes, lists each remote prefix, and for    *)
(* every listed .SAFE/ folder applies the date window, the local-path      *)
(* existence check and the cloud-cover gate before the recursive copy.     *)
(*                                                                         *)
(* Strings are sequences of tokens (single characters, plus a few          *)
(* multi-character tokens that no string operation of the program looks    *)
(* inside).  Dates are day ordinals (day 0 is 2023-01-01), as Python's     *)
(* datetime arithmetic uses them; strftime turns an ordinal into the eight *)
(* digits YYYYMMDD.  Cloud-cover values are tenths of a percent.           *)
(***************************************************************************)
EXTENDS Integers, Sequences, FiniteSets, TLC

\* ------------------------------------------------------------------ bounds
\* How many of the configured region codes a run walks.
NumRegions == 2
\* How many times the script is run against the same local output tree.
MaxRuns == 2
\* The largest window size get_recent_dates is asked for.
MaxDays == 20

\* ------------------------------------------------------- program constants
\* get_recent_dates(15), main.
WindowDays == 15
\* cloud_cover_percentage <= 30.0, in tenths of a percent.
Threshold == 300

\* ------------------------------------------------------------------ strings
DigitChars == <<"0", "1", "2", "3", "4", "5", "6", "7", "8", "9">>

IsDigit(ch) == \E k \in 1..10 : DigitChars[k] = ch

DigitValue(ch) == (CHOOSE k \in 1..10 : DigitChars[k] = ch) - 1

\* str.endswith
EndsWith(s, suffix) ==
    /\ Len(s) >= Len(suffix)
    /\ SubSeq(s, Len(s) - Len(suffix) + 1, Len(s)) = suffix

\* str.strip(ch): every leading and trailing ch removed.
RECURSIVE StripLeft(_, _)
StripLeft(s, ch) ==
    IF s # <<>> /\ Head(s) = ch THEN StripLeft(Tail(s), ch) ELSE s

RECURSIVE StripRight(_, _)
StripRight(s, ch) ==
    IF s # <<>> /\ s[Len(s)] = ch THEN StripRight(SubSeq(s, 1, Len(s) - 1), ch) ELSE s

Strip(s, ch) == StripRight(StripLeft(s, ch), ch)

\* os.path.basename: what follows the last separator.
Basename(s) ==
    LET seps == {i \in 1..Len(s) : s[i] = "/"}
    IN  IF seps = {} THEN s
        ELSE SubSeq(s, (CHOOSE i \in seps : \A j \in seps : j <= i) + 1, Len(s))

\* os.path.join of two components.
PathJoin(a, b) == IF a = <<>> THEN b ELSE IF a[Len(a)] = "/" THEN a \o b ELSE a \o <<"/">> \o b

\* os.path.normpath, for the paths the program builds: trailing separators go.
NormPath(p) == IF Len(p) > 1 THEN StripRight(p, "/") ELSE p

\* The decimal digits of n, zero-padded to width w (strftime's %Y, %m, %d).
RECURSIVE Digits(_, _)
Digits(n, w) ==
    IF w = 0 THEN <<>> ELSE Digits(n \div 10, w - 1) \o <<DigitChars[(n % 10) + 1]>>

\* -------------------------------------------------------------------- dates
IsLeap(y) == (y % 4 = 0 /\ y % 100 # 0) \/ y % 400 = 0

DaysInYear(y) == IF IsLeap(y) THEN 366 ELSE 365

DaysInMonth(y, m) ==
    IF m = 2 THEN (IF IsLeap(y) THEN 29 ELSE 28)
    ELSE IF m \in {4, 6, 9, 11} THEN 30 ELSE 31

RECURSIVE CivilYear(_, _)
CivilYear(n, y) ==
    IF n < DaysInYear(y) THEN [y |-> y, rest |-> n] ELSE CivilYear(n - DaysInYear(y), y + 1)

RECURSIVE CivilMonth(_, _, _)
CivilMonth(n, y, m) ==
    IF n < DaysInMonth(y, m) THEN [m |-> m, d |-> n + 1]
    ELSE CivilMonth(n - DaysInMonth(y, m), y, m + 1)

\* The calendar date of day ordinal n.
Civil(n) ==
    LET yr == CivilYear(n, 2023)
        md == CivilMonth(yr.rest, yr.y, 1)
    IN  [y |-> yr.y, m |-> md.m, d |-> md.d]

\* datetime.strftime('%Y%m%d')
Strftime(n) ==
    LET c == Civil(n) IN Digits(c.y, 4) \o Digits(c.m, 2) \o Digits(c.d, 2)

\* Mutant: the range starts at 1, so the window begins yesterday.
get_recent_dates_from_yesterday(now, num_days) == {Strftime(now - i) : i \in 1..num_days}

\* get_recent_dates(num_days) read at day ordinal now.
get_recent_dates(now, num_days) == {Strftime(now - i) : i \in 0..(num_days - 1)}

\* The days on which the first run may start: 2024-03-05, whose window
\* reaches back over the leap day to 2024-02-20.
StartDays == {429}

\* The days on which get_recent_dates is tried by itself: 2023-02-20 to
\* 2023-03-21 (no leap day) and 2023-12-22 to 2024-03-16 (the turn of the
\* year and the leap day).
DateDays == (50..79) \cup (355..440)

\* ------------------------------------------------------------ configuration
DIRETORIO_OUTPUT_BASE == <<"Output_GCS">>

BUCKET_BASE_URI == <<"gs:", "/", "/", "gcp-public-data-sentinel-2", "/", "L2", "/", "tiles">>

AllCodigos ==
    << <<"23", "K", "NQ">>, <<"23", "K", "NR">>, <<"23", "K", "PR">>, <<"23", "K", "QQ">>,
       <<"23", "K", "QR">>, <<"23", "K", "QS">>, <<"23", "K", "RQ">>, <<"23", "K", "RR">>,
       <<"23", "K", "RS">>, <<"23", "K", "RT">>, <<"23", "K", "KP">>,
       <<"24", "K", "TA">>, <<"24", "K", "TB">>, <<"24", "K", "TC">>, <<"24", "K", "TV">> >>

\* The region codes a run walks: the first NumRegions of the configured list.
codigos == SubSeq(AllCodigos, 1, IF NumRegions < Len(AllCodigos) THEN NumRegions ELSE Len(AllCodigos))

\* f"{BUCKET_BASE_URI}/{codigo[0]}/{codigo[1]}/{codigo[2]}/"
UriBase(codigo) ==
    BUCKET_BASE_URI \o <<"/", codigo[1], "/", codigo[2], "/", codigo[3], "/">>

\* os.path.join(DIRETORIO_OUTPUT_BASE, codigo[0], codigo[1], codigo[2])
LocalBase(codigo) ==
    PathJoin(PathJoin(PathJoin(DIRETORIO_OUTPUT_BASE, <<codigo[1]>>), <<codigo[2]>>), <<codigo[3]>>)

\* Mutant: the local path is looked for directly under the output root.
LocalFinalNoRegion(codigo, nome_pasta) == PathJoin(DIRETORIO_OUTPUT_BASE, nome_pasta)

\* os.path.join(caminho_local_base, nome_pasta)
LocalFinal(codigo, nome_pasta) == PathJoin(LocalBase(codigo), nome_pasta)

\* nome_pasta = os.path.basename(pasta_uri.strip('/'))
NomePasta(pasta_uri) == Basename(Strip(pasta_uri, "/"))

\* Mutant: the pattern lacks its closing T, r'_(\d{8})'.
MatchStartsNoT(nome) ==
    {i \in 1..Len(nome) :
        /\ i + 8 <= Len(nome)
        /\ nome[i] = "_"
        /\ \A k \in 1..8 : IsDigit(nome[i + k])}

\* re.search(r'_(\d{8})T', nome_pasta): the places where the pattern matches.
MatchStarts(nome) ==
    {i \in 1..Len(nome) :
        /\ i + 9 <= Len(nome)
        /\ nome[i] = "_"
        /\ \A k \in 1..8 : IsDigit(nome[i + k])
        /\ nome[i + 9] = "T"}

NoMatch == <<"no match">>

\* match.group(1) of the leftmost match, or NoMatch.
DateOfName(nome) ==
    LET ms == MatchStarts(nome)
    IN  IF ms = {} THEN NoMatch
        ELSE LET i == CHOOSE x \in ms : \A y \in ms : x <= y
             IN  SubSeq(nome, i + 1, i + 8)

\* Mutant: the date filter lets every dated folder through.
InWindowAlways(data_da_pasta, window) == TRUE

\* data_da_pasta in datas_recentes
InWindow(data_da_pasta, window) == data_da_pasta \in window

\* Mutant: the existence check never finds the path.
PathExistsNever(p, fs) == FALSE

\* os.path.exists(caminho_local_final)
PathExists(p, fs) == p \in fs

\* Mutant: the call that makes the directories is left out.
MakeDirsNone(p, fs) == fs

\* The directories os.makedirs(p, exist_ok=True) leaves on disk: p and its parents.
MakeDirs(p, fs) ==
    fs \cup {SubSeq(p, 1, i) : i \in {j \in 1..Len(p) : j = Len(p) \/ p[j + 1] = "/"}}

\* ------------------------------------------------------- the remote bucket
\* Folder names as the bucket lists them; the date is the sensing date.
\* A name dated d, e.g. S_20240305Ta.SAFE
Dated(d, id) == <<"S", "_">> \o Strftime(d) \o <<"T", id, ".SAFE">>

\* A name with two date stamps (sensing first, processing second).
TwoDates(d1, d2) == <<"S", "_">> \o Strftime(d1) \o <<"T", "_">> \o Strftime(d2) \o <<"T", ".SAFE">>

\* Names in which the pattern does not occur: seven digits before the T,
\* and eight digits with no T after them.
ShortDate(d) == <<"S", "_">> \o Tail(Strftime(d)) \o <<"T", "c", ".SAFE">>

NoSeparator(d) == <<"S", "_">> \o Strftime(d) \o <<"x", ".SAFE">>

\* The listings one remote prefix may hold on day t (stdout of `storage ls`,
\* one line per entry, each line relative to the prefix): nothing; two
\* folders in the window; one just outside and the oldest one inside; a line
\* that is no .SAFE/ folder and a folder whose first date is outside; names
\* without the pattern; a folder dated tomorrow.
Listings(t) ==
    { <<>>,
      << Dated(t, "a") \o <<"/">>, Dated(t - 3, "b") \o <<"/">> >>,
      << Dated(t - WindowDays, "o") \o <<"/">>, Dated(t - (WindowDays - 1), "e") \o <<"/">> >>,
      << Dated(t, "f"), TwoDates(t - WindowDays, t) \o <<"/">> >>,
      << ShortDate(t) \o <<"/">>, Dated(t + 1, "n") \o <<"/">> >>,
      << NoSeparator(t) \o <<"/">> >> }

\* --------------------------------------------------- metadata documents
cloud_tags_to_try ==
    <<"Cloud_Coverage_Assessment", "CLOUDY_PIXEL_OVER_LAND_PERCENTAGE", "CLOUDY_PIXEL_PERCENTAGE">>

Absent == <<"absent">>
NoText == <<"None">>

TagSet == {cloud_tags_to_try[i] : i \in 1..Len(cloud_tags_to_try)}

\* A document: well-formed or not, and for each tag the text of its first
\* element anywhere in the tree (Absent: no such element).
Doc(t1, t2, t3) ==
    [wf |-> TRUE,
     elems |-> [t \in TagSet |-> IF t = cloud_tags_to_try[1] THEN t1
                                 ELSE IF t = cloud_tags_to_try[2] THEN t2 ELSE t3]]

Malformed == [wf |-> FALSE, elems |-> [t \in TagSet |-> Absent]]

\* Element texts: 12.5, 30.0, 30.1, 99.9, an empty element, and a word.
T125 == <<"1", "2", ".", "5">>
T300 == <<"3", "0", ".", "0">>
T301 == <<"3", "0", ".", "1">>
T999 == <<"9", "9", ".", "9">>
Word == <<"n", "/", "a">>

\* The documents a metadata fetch may bring: one that is not well-formed,
\* one with none of the tags, the first tag alone with each text, and
\* several tags at once with texts on either side of the threshold.
DocPool ==
    { Malformed,
      Doc(Absent, Absent, Absent),
      Doc(T125, Absent, Absent), Doc(T300, Absent, Absent), Doc(T301, Absent, Absent),
      Doc(NoText, Absent, Absent), Doc(Word, Absent, Absent),
      Doc(T301, T125, T125), Doc(Absent, T300, T999), Doc(Absent, NoText, T125),
      Doc(Absent, Absent, T125), Doc(Absent, Absent, T999) }

\* The texts one tag of a document may hold, Absent included.
TagTexts == {Absent, T125, T300, T301, T999, NoText, Word}

\* Every well-formed document over those texts: each combination of present
\* tags, with each text under each tag.
AllDocs == {Doc(t[1], t[2], t[3]) : t \in TagTexts \X TagTexts \X TagTexts}

\* A file some other program left at the scratch path.
StaleDoc == Doc(T125, Absent, Absent)

\* What a call hands back: a value, None, or an exception.
Value(v) == [kind |-> "value", v |-> v, exc |-> ""]
None == [kind |-> "none", v |-> 0, exc |-> ""]
Raise(exc) == [kind |-> "raise", v |-> 0, exc |-> exc]

\* float(text) of the texts above: digits, a point, one digit.
IsDecimal(text) ==
    /\ Len(text) >= 3
    /\ text[Len(text) - 1] = "."
    /\ \A i \in 1..Len(text) : i # Len(text) - 1 => IsDigit(text[i])

RECURSIVE IntOf(_)
IntOf(s) == IF s = <<>> THEN 0 ELSE IntOf(SubSeq(s, 1, Len(s) - 1)) * 10 + DigitValue(s[Len(s)])

\* float(cloud_cover_element.text): the value in tenths, or the exception.
Float(text) ==
    IF text = NoText THEN Raise("TypeError")
    ELSE IF IsDecimal(text)
         THEN Value(IntOf(SubSeq(text, 1, Len(text) - 2)) * 10 + DigitValue(text[Len(text)]))
         ELSE Raise("ValueError")

\* ------------------------------------------------------------------ state
VARIABLES
    pc,                  \* where the process is: "main", "list", "entry", "fetch", "parse",
                         \* "finally", "gate", "copy"; "done", "returned", "crashed" once it ended
    run,                 \* which run of the script this is
    today,               \* the day ordinal the system clock shows
    remote,              \* remote[r]: the listing lines under the prefix of codigos[r]
    fs,                  \* the local paths that exist
    incomplete,          \* the local paths a failed copy left behind
    populated,           \* whether every candidate's local path existed when this run began
    scratch,             \* the file at temp_xml_path
    num_days,            \* the window size get_recent_dates is asked for
    datas_recentes,      \* main's Date Window
    ri,                  \* index into codigos of the region being processed
    pastas_disponiveis,  \* the .SAFE/ folders listed for that region
    ei,                  \* index into pastas_disponiveis of the entry being processed
    ret,                 \* what get_cloud_cover is about to hand to main
    log,                 \* the records the last step appended to the log stream
    calls                \* the external tool invocations made for the current region (its
                         \* listing first), in order

vars == <<pc, run, today, remote, fs, incomplete, populated, scratch, num_days, datas_recentes, ri,
          pastas_disponiveis, ei, ret, log, calls>>

\* ------------------------------------------------------------ small helpers
metadata_filename == <<"MTD_MSIL2A.xml">>

\* os.path.join(tempfile.gettempdir(), metadata_filename)
temp_xml_path == PathJoin(<<"tmp">>, metadata_filename)

NoFile == [exists |-> FALSE, owner |-> <<>>, doc |-> Malformed]

File(owner, doc) == [exists |-> TRUE, owner |-> owner, doc |-> doc]

Rec(level, msg, about) == [level |-> level, msg |-> msg, about |-> about]

codigo == codigos[ri]

pasta_uri == pastas_disponiveis[ei]

nome_pasta == NomePasta(pasta_uri)

caminho_local_base == LocalBase(codigo)

caminho_local_final == LocalFinal(codigo, nome_pasta)

\* subprocess.run(..., capture_output=True, text=True): the captured streams
\* are str; without text they are bytes.
CapturedStderr(text) == IF text THEN "str" ELSE "bytes"

\* e.stderr.decode('utf-8', errors='ignore'): bytes has decode, str has not.
Decode(captured) == IF captured = "bytes" THEN None ELSE Raise("AttributeError")

\* result.stdout.strip().split('\n'), each line made absolute as the tool prints it.
SplitLines(uri_base, stdout) ==
    IF stdout = <<>> THEN << <<>> >> ELSE [i \in 1..Len(stdout) |-> uri_base \o stdout[i]]

\* [item for item in all_items if item.endswith('.SAFE/')]
RECURSIVE SafeFolders(_)
SafeFolders(all_items) ==
    IF all_items = <<>> THEN <<>>
    ELSE (IF EndsWith(Head(all_items), <<".SAFE", "/">>) THEN <<Head(all_items)>> ELSE <<>>)
         \o SafeFolders(Tail(all_items))

\* Mutant: the threshold itself is turned away.
CoverAcceptedStrict(c) == c < Threshold

\* cloud_cover_percentage <= 30.0
CoverAccepted(c) == c <= Threshold

\* The control point after the current entry: the next entry, the next
\* region, or the end of main.
AfterRegion ==
    IF ri < Len(codigos) THEN [pc |-> "list", ri |-> ri + 1, ei |-> 0]
    ELSE [pc |-> "done", ri |-> ri, ei |-> 0]

AfterEntry ==
    IF ei < Len(pastas_disponiveis) THEN [pc |-> "entry", ri |-> ri, ei |-> ei + 1]
    ELSE AfterRegion

\* logging.info("Script finalizado com sucesso!") when main's loop is over.
Goto(t, records) ==
    /\ pc' = t.pc
    /\ ri' = t.ri
    /\ ei' = t.ei
    /\ log' = records \o (IF t.pc = "done" THEN <<Rec("info", "finished", <<>>)>> ELSE <<>>)

\* --------------------------------------------------------------------- Init
Init ==
    /\ pc = "main"
    /\ run = 1
    /\ today \in StartDays
    /\ remote \in [1..Len(codigos) -> Listings(today)]
    /\ fs = {DIRETORIO_OUTPUT_BASE}
    /\ incomplete = {}
    /\ populated = FALSE
    /\ scratch \in {NoFile, File(<<"stale">>, StaleDoc)}
    /\ num_days = WindowDays
    /\ datas_recentes = {}
    /\ ri = 0
    /\ pastas_disponiveis = <<>>
    /\ ei = 0
    /\ ret = None
    /\ log = <<>>
    /\ calls = <<>>

\* ------------------------------------------------------------------- main
\* Mutant: the missing tool is reported and main enters its loop all the same.
MainAbortGoesOn ==
    /\ pc = "main"
    /\ datas_recentes' = get_recent_dates(today, WindowDays)
    /\ pc' = "list"
    /\ ri' = 1
    /\ log' = <<Rec("error", "gcloud_missing", <<>>), Rec("error", "install_guide", <<>>)>>
    /\ UNCHANGED <<num_days, run, today, remote, fs, incomplete, populated, scratch, pastas_disponiveis, ei,
                   ret, calls>>

\* check_gcloud_availability() found nothing: main returns.
MainAbort ==
    /\ pc = "main"
    /\ pc' = "returned"
    /\ log' = <<Rec("error", "gcloud_missing", <<>>), Rec("error", "install_guide", <<>>)>>
    /\ UNCHANGED <<num_days, run, today, remote, fs, incomplete, populated, scratch, datas_recentes, ri,
                   pastas_disponiveis, ei, ret, calls>>

\* The local path of every listed .SAFE/ folder whose date is in the window.
Candidates(window) ==
    UNION { { PathJoin(LocalBase(codigos[r]), NomePasta(u)) :
                u \in { x \in { (UriBase(codigos[r]) \o remote[r][i]) : i \in 1..Len(remote[r]) } :
                          /\ EndsWith(x, <<".SAFE", "/">>)
                          /\ DateOfName(NomePasta(x)) \in window } }
            : r \in 1..Len(codigos) }

\* The tool is there: the Date Window is computed and the loop begins.
MainBegin ==
    /\ pc = "main"
    /\ datas_recentes' = get_recent_dates(today, num_days)
    /\ populated' = (Candidates(datas_recentes') # {} /\ Candidates(datas_recentes') \subseteq fs)
    /\ pc' = "list"
    /\ ri' = 1
    /\ log' = <<Rec("info", "gcloud_found", <<>>), Rec("info", "searching", <<>>)>>
    /\ UNCHANGED <<num_days, run, today, remote, fs, incomplete, scratch, pastas_disponiveis, ei, ret, calls>>

\* ------------------------------------------- get_available_safe_folders
ListCall == [op |-> "ls", src |-> UriBase(codigo), dst |-> <<>>]

\* The listing call exits 0.
ListOk ==
    /\ pc = "list"
    /\ calls' = <<ListCall>>
    /\ LET safe_folders == SafeFolders(SplitLines(UriBase(codigo), remote[ri]))
           head == <<Rec("info", "processing", UriBase(codigo)), Rec("info", "listing", UriBase(codigo))>>
       IN  IF safe_folders = <<>>
           THEN /\ pastas_disponiveis' = <<>>
                /\ Goto(AfterRegion, head \o <<Rec("info", "no_safe", UriBase(codigo))>>)
           ELSE /\ pastas_disponiveis' = safe_folders
                /\ pc' = "entry"
                /\ ei' = 1
                /\ ri' = ri
                /\ log' = head \o <<Rec("info", "found_safe", UriBase(codigo))>>
    /\ UNCHANGED <<num_days, run, today, remote, fs, incomplete, populated, scratch, datas_recentes, ret>>

\* The listing call exits non-zero; benign: the error text holds "Bucket Brigade".
ListFail ==
    /\ pc = "list"
    /\ calls' = <<ListCall>>
    /\ \E benign \in BOOLEAN :
        LET head == <<Rec("info", "processing", UriBase(codigo)), Rec("info", "listing", UriBase(codigo))>>
            stderr_output == Decode(CapturedStderr(TRUE))
        IN  IF stderr_output.kind = "raise"
            THEN \* the handler itself raises; nothing in main catches it here
                 /\ pc' = "crashed"
                 /\ log' = head
                 /\ UNCHANGED <<ri, ei>>
            ELSE Goto(AfterRegion,
                      head \o <<IF benign THEN Rec("info", "list_benign", UriBase(codigo))
                                ELSE Rec("warning", "list_warn", UriBase(codigo))>>)
    /\ pastas_disponiveis' = <<>>
    /\ UNCHANGED <<num_days, run, today, remote, fs, incomplete, populated, scratch, datas_recentes, ret>>

\* ------------------------------------------------- main: one listed entry
EntryError(exc) == Rec("error", "entry_error:" \o exc, pasta_uri)

\* No date in the name, or a date outside the window: the entry is passed over.
EntrySkip ==
    /\ pc = "entry"
    /\ LET data_da_pasta == DateOfName(nome_pasta)
       IN  data_da_pasta = NoMatch \/ ~InWindow(data_da_pasta, datas_recentes)
    /\ Goto(AfterEntry, <<>>)
    /\ UNCHANGED <<num_days, run, today, remote, fs, incomplete, populated, scratch, datas_recentes,
                   pastas_disponiveis, ret, calls>>

\* In the window, and os.makedirs, having a directory to create, raises
\* (OSError): caught by main's handler.
EntryMkdirFail ==
    /\ pc = "entry"
    /\ LET data_da_pasta == DateOfName(nome_pasta)
       IN  data_da_pasta # NoMatch /\ InWindow(data_da_pasta, datas_recentes)
    /\ caminho_local_base \notin fs
    /\ Goto(AfterEntry, <<Rec("info", "found", pasta_uri), EntryError("OSError")>>)
    /\ UNCHANGED <<num_days, run, today, remote, fs, incomplete, populated, scratch, datas_recentes,
                   pastas_disponiveis, ret, calls>>

\* In the window, the region's directory is made, and the local path exists.
EntryExists ==
    /\ pc = "entry"
    /\ LET data_da_pasta == DateOfName(nome_pasta)
       IN  data_da_pasta # NoMatch /\ InWindow(data_da_pasta, datas_recentes)
    /\ fs' = MakeDirs(caminho_local_base, fs)
    /\ PathExists(caminho_local_final, fs')
    /\ Goto(AfterEntry, <<Rec("info", "found", pasta_uri), Rec("info", "exists_skip", caminho_local_final)>>)
    /\ UNCHANGED <<num_days, run, today, remote, incomplete, populated, scratch, datas_recentes,
                   pastas_disponiveis, ret, calls>>

\* In the window, the region's directory is made, and the local path is not
\* there: main calls get_cloud_cover(pasta_uri).
EntryCheck ==
    /\ pc = "entry"
    /\ LET data_da_pasta == DateOfName(nome_pasta)
       IN  data_da_pasta # NoMatch /\ InWindow(data_da_pasta, datas_recentes)
    /\ fs' = MakeDirs(caminho_local_base, fs)
    /\ ~PathExists(caminho_local_final, fs')
    /\ pc' = "fetch"
    /\ log' = <<Rec("info", "found", pasta_uri)>>
    /\ UNCHANGED <<num_days, run, today, remote, incomplete, populated, scratch, datas_recentes, ri,
                   pastas_disponiveis, ei, ret, calls>>

\* -------------------------------------------------------- get_cloud_cover
metadata_file_uri == pasta_uri \o metadata_filename

FetchCall == [op |-> "fetch", src |-> metadata_file_uri, dst |-> temp_xml_path]

\* The metadata copy exits 0: the document is at temp_xml_path.
FetchOk ==
    /\ pc = "fetch"
    /\ calls' = Append(calls, FetchCall)
    /\ \E doc \in DocPool : scratch' = File(pasta_uri, doc)
    /\ pc' = "parse"
    /\ log' = <<Rec("info", "checking", metadata_file_uri)>>
    /\ UNCHANGED <<num_days, run, today, remote, fs, incomplete, populated, datas_recentes, ri,
                   pastas_disponiveis, ei, ret>>

\* What the CalledProcessError handler of get_cloud_cover does.
FetchFailed ==
    LET stderr_output == Decode(CapturedStderr(TRUE))
    IN  IF stderr_output.kind = "raise"
        THEN [ret |-> stderr_output, log |-> <<>>]
        ELSE [ret |-> None, log |-> <<Rec("error", "fetch_fail", metadata_file_uri)>>]

\* Mutant: the exit status is not checked, and whatever is at temp_xml_path
\* is parsed.
FetchFailParses ==
    /\ pc = "fetch"
    /\ calls' = Append(calls, FetchCall)
    /\ pc' = "parse"
    /\ log' = <<Rec("info", "checking", metadata_file_uri)>>
    /\ UNCHANGED <<num_days, run, today, remote, fs, incomplete, populated, scratch, datas_recentes, ri,
                   pastas_disponiveis, ei, ret>>

\* The metadata copy exits non-zero: whatever is at temp_xml_path stays.
FetchFail ==
    /\ pc = "fetch"
    /\ calls' = Append(calls, FetchCall)
    /\ ret' = FetchFailed.ret
    /\ log' = <<Rec("info", "checking", metadata_file_uri)>> \o FetchFailed.log
    /\ pc' = "finally"
    /\ UNCHANGED <<num_days, run, today, remote, fs, incomplete, populated, scratch, datas_recentes, ri,
                   pastas_disponiveis, ei>>

\* The tags of cloud_tags_to_try the document holds, by their place in the list.
PresentTags(doc) == {i \in 1..Len(cloud_tags_to_try) : doc.elems[cloud_tags_to_try[i]] # Absent}

\* Mutant: the loop keeps the last tag found instead of stopping at the first.
FirstTagLast(doc) == CHOOSE i \in PresentTags(doc) : \A j \in PresentTags(doc) : j <= i

\* The tag the loop stops at: the first of the list that root.find() finds.
FirstTag(doc) == CHOOSE i \in PresentTags(doc) : \A j \in PresentTags(doc) : i <= j

\* Mutant: a document without any of the tags counts as zero cover.
ParseCloudCoverDefaultZero(doc) ==
    IF ~doc.wf
    THEN [ret |-> None, log |-> <<Rec("error", "parse_fail", temp_xml_path)>>]
    ELSE IF PresentTags(doc) = {}
    THEN [ret |-> Value(0), log |-> <<Rec("warning", "no_tags", metadata_filename)>>]
    ELSE LET cloud_cover == Float(doc.elems[cloud_tags_to_try[FirstTag(doc)]])
         IN  IF cloud_cover.kind = "value"
             THEN [ret |-> cloud_cover,
                   log |-> <<Rec("info", "cloud_found", <<cloud_tags_to_try[FirstTag(doc)]>>)>>]
             ELSE [ret |-> cloud_cover, log |-> <<>>]

\* ET.parse, the loop over cloud_tags_to_try, float(), and the ParseError handler.
ParseCloudCover(doc) ==
    IF ~doc.wf
    THEN [ret |-> None, log |-> <<Rec("error", "parse_fail", temp_xml_path)>>]
    ELSE IF PresentTags(doc) = {}
    THEN [ret |-> None, log |-> <<Rec("warning", "no_tags", metadata_filename)>>]
    ELSE LET cloud_cover == Float(doc.elems[cloud_tags_to_try[FirstTag(doc)]])
         IN  IF cloud_cover.kind = "value"
             THEN [ret |-> cloud_cover,
                   log |-> <<Rec("info", "cloud_found", <<cloud_tags_to_try[FirstTag(doc)]>>)>>]
             ELSE [ret |-> cloud_cover, log |-> <<>>]

Parse ==
    /\ pc = "parse"
    /\ ret' = ParseCloudCover(scratch.doc).ret
    /\ log' = ParseCloudCover(scratch.doc).log
    /\ pc' = "finally"
    /\ UNCHANGED <<num_days, run, today, remote, fs, incomplete, populated, scratch, datas_recentes, ri,
                   pastas_disponiveis, ei, calls>>

\* Mutant: the file is left where it is.
CleanupKeep(file) == file

\* finally: if os.path.exists(temp_xml_path): os.remove(temp_xml_path)
Cleanup(file) == IF file.exists THEN NoFile ELSE file

Finally ==
    /\ pc = "finally"
    /\ scratch' = Cleanup(scratch)
    /\ pc' = "gate"
    /\ log' = <<>>
    /\ UNCHANGED <<num_days, run, today, remote, fs, incomplete, populated, datas_recentes, ri,
                   pastas_disponiveis, ei, ret, calls>>

\* ------------------------------------------------- main: the cloud-cover gate
\* get_cloud_cover raised: main's handler logs the entry and goes on.
GateRaise ==
    /\ pc = "gate"
    /\ ret.kind = "raise"
    /\ ret' = None
    /\ Goto(AfterEntry, <<EntryError(ret.exc)>>)
    /\ UNCHANGED <<num_days, run, today, remote, fs, incomplete, populated, scratch, datas_recentes,
                   pastas_disponiveis, calls>>

\* cloud_cover_percentage is None
GateUnknown ==
    /\ pc = "gate"
    /\ ret.kind = "none"
    /\ ret' = None
    /\ Goto(AfterEntry, <<Rec("warning", "cover_unknown", nome_pasta)>>)
    /\ UNCHANGED <<num_days, run, today, remote, fs, incomplete, populated, scratch, datas_recentes,
                   pastas_disponiveis, calls>>

GateAccept ==
    /\ pc = "gate"
    /\ ret.kind = "value"
    /\ CoverAccepted(ret.v)
    /\ pc' = "copy"
    /\ log' = <<Rec("info", "accept", nome_pasta)>>
    /\ UNCHANGED <<num_days, run, today, remote, fs, incomplete, populated, scratch, datas_recentes, ri,
                   pastas_disponiveis, ei, ret, calls>>

\* Mutant: the download is outside the if, so a cover above the limit is
\* downloaded as well.
GateRejectCopies ==
    /\ pc = "gate"
    /\ ret.kind = "value"
    /\ ~CoverAccepted(ret.v)
    /\ pc' = "copy"
    /\ log' = <<Rec("info", "reject", nome_pasta)>>
    /\ UNCHANGED <<num_days, run, today, remote, fs, incomplete, populated, scratch, datas_recentes, ri,
                   pastas_disponiveis, ei, ret, calls>>

GateReject ==
    /\ pc = "gate"
    /\ ret.kind = "value"
    /\ ~CoverAccepted(ret.v)
    /\ ret' = None
    /\ Goto(AfterEntry, <<Rec("info", "reject", nome_pasta)>>)
    /\ UNCHANGED <<num_days, run, today, remote, fs, incomplete, populated, scratch, datas_recentes,
                   pastas_disponiveis, calls>>

\* -------------------------------------------------------- download_folder
\* Mutant: the copy is pointed at the folder's own local path.
CopyCallIntoFinal == [op |-> "cp", src |-> pasta_uri, dst |-> NormPath(caminho_local_final)]

\* download_folder(pasta_uri, caminho_local_base)
CopyCall == [op |-> "cp", src |-> pasta_uri, dst |-> NormPath(caminho_local_base)]

\* What `storage cp -r <folder> <dir>` creates: <dir>/<folder name>.
Copied(call) == PathJoin(call.dst, Basename(Strip(call.src, "/")))

\* The copy exits 0.
CopyOk ==
    /\ pc = "copy"
    /\ calls' = Append(calls, CopyCall)
    /\ fs' = fs \cup {Copied(CopyCall)}
    /\ ret' = None
    /\ Goto(AfterEntry, <<Rec("info", "download_start", pasta_uri), Rec("info", "download_ok", pasta_uri)>>)
    /\ UNCHANGED <<num_days, run, today, remote, incomplete, populated, scratch, datas_recentes, pastas_disponiveis>>

\* The copy exits non-zero, having created the folder (partial) or not.
CopyFail ==
    /\ pc = "copy"
    /\ calls' = Append(calls, CopyCall)
    /\ \E partial \in BOOLEAN :
        /\ fs' = IF partial THEN fs \cup {Copied(CopyCall)} ELSE fs
        /\ incomplete' = IF partial THEN incomplete \cup {Copied(CopyCall)} ELSE incomplete
    /\ ret' = None
    /\ Goto(AfterEntry, <<Rec("info", "download_start", pasta_uri),
                          Rec("error", "download_fail", pasta_uri),
                          Rec("error", "gcloud_error", pasta_uri)>>)
    /\ UNCHANGED <<num_days, run, today, remote, populated, scratch, datas_recentes, pastas_disponiveis>>

\* ------------------------------------------------------------ the next run
\* The script is started again the same day, on the same local tree and the
\* same bucket.
NextRun ==
    /\ pc \in {"done", "returned", "crashed"}
    /\ run < MaxRuns
    /\ run' = run + 1
    /\ pc' = "main"
    /\ fs' = fs \cup {DIRETORIO_OUTPUT_BASE}
    /\ populated' = FALSE
    /\ datas_recentes' = {}
    /\ ri' = 0
    /\ ei' = 0
    /\ pastas_disponiveis' = <<>>
    /\ ret' = None
    /\ log' = <<>>
    /\ calls' = <<>>
    /\ UNCHANGED <<num_days, today, remote, incomplete, scratch>>

Next ==
    \/ MainAbort
    \/ MainBegin
    \/ ListOk
    \/ ListFail
    \/ EntrySkip
    \/ EntryMkdirFail
    \/ EntryExists
    \/ EntryCheck
    \/ FetchOk
    \/ FetchFail
    \/ Parse
    \/ Finally
    \/ GateRaise
    \/ GateUnknown
    \/ GateAccept
    \/ GateReject
    \/ CopyOk
    \/ CopyFail
    \/ NextRun

Spec == Init /\ [][Next]_vars

\* ------------------------------------- get_cloud_cover on every document
\* get_cloud_cover(pasta_uri) right after its metadata copy has exited 0, for
\* an entry of the first region that is in the window and has no local path:
\* any document of AllDocs is at temp_xml_path.
InitParse ==
    /\ pc = "parse"
    /\ run = 1
    /\ today \in StartDays
    /\ remote = [r \in 1..Len(codigos) |->
                    << Dated(today, "a") \o <<"/">>, Dated(today - 3, "b") \o <<"/">> >>]
    /\ fs = MakeDirs(LocalBase(codigos[1]), {DIRETORIO_OUTPUT_BASE})
    /\ incomplete = {}
    /\ populated = FALSE
    /\ num_days = WindowDays
    /\ datas_recentes = get_recent_dates(today, num_days)
    /\ ri = 1
    /\ pastas_disponiveis = SafeFolders(SplitLines(UriBase(codigos[1]), remote[1]))
    /\ ei \in 1..Len(pastas_disponiveis)
    /\ scratch \in {File(pasta_uri, doc) : doc \in AllDocs}
    /\ ret = None
    /\ log = <<Rec("info", "checking", metadata_file_uri)>>
    /\ calls = <<ListCall, FetchCall>>

\* get_cloud_cover from there to its return.
NextParse ==
    \/ Parse
    \/ Finally

SpecParse == InitParse /\ [][NextParse]_vars

\* -------------------------------------- get_recent_dates on every input
\* main about to ask for its Date Window, on any day of DateDays and with any
\* window size up to MaxDays; the bucket is empty.
InitDates ==
    /\ pc = "main"
    /\ run = 1
    /\ today \in DateDays
    /\ remote = [r \in 1..Len(codigos) |-> <<>>]
    /\ fs = {DIRETORIO_OUTPUT_BASE}
    /\ incomplete = {}
    /\ populated = FALSE
    /\ scratch = NoFile
    /\ num_days \in 1..MaxDays
    /\ datas_recentes = {}
    /\ ri = 0
    /\ pastas_disponiveis = <<>>
    /\ ei = 0
    /\ ret = None
    /\ log = <<>>
    /\ calls = <<>>

NextDates == MainBegin

SpecDates == InitDates /\ [][NextDates]_vars

\* ------------------------------------------------------------------ claims
Logged(r) == \E i \in 1..Len(log) : log[i] = r

LoggedMsg(level, msg) == \E i \in 1..Len(log) : log[i].level = level /\ log[i].msg = msg

\* The same, of the records the step being taken appends.
LoggedNext(r) == \E i \in 1..Len(log') : log'[i] = r

LoggedMsgNext(level, msg) == \E i \in 1..Len(log') : log'[i].level = level /\ log'[i].msg = msg

RunEnded == pc \in {"done", "returned", "crashed"}

\* The folder a fetch or copy invocation is about.
FolderOf(call) == IF call.op = "fetch" THEN SubSeq(call.src, 1, Len(call.src) - 1) ELSE call.src

\* The invocation a step has just made, if it made one.
Invoked(op) == Len(calls') = Len(calls) + 1 /\ calls'[Len(calls')].op = op

\* The messages main's handler writes for an entry that raised.
EntryErrorMsgs == {"entry_error:" \o x : x \in {"OSError", "AttributeError", "TypeError", "ValueError"}}

EntryRaisedLogged == \E i \in 1..Len(log) : log[i].level = "error" /\ log[i].msg \in EntryErrorMsgs

\* C1: a listing call that exits non-zero yields no folders for its region
\* and the driver goes on with the next configured region (or, after the
\* last one, to the end of main).
C1_ListingFailureGoesOn ==
    [][ListFail => /\ pastas_disponiveis' = <<>>
                   /\ pc' = AfterRegion.pc
                   /\ ri' = AfterRegion.ri]_vars

\* C2: a run that passed the availability check and has ended has emitted
\* the overall-completion report: no failure ends it before the loop over all
\* regions has finished.
C2_EndedRunReportedCompletion ==
    (RunEnded /\ pc # "returned") => (pc = "done" /\ LoggedMsg("info", "finished"))

\* C3: an exception raised while one entry is processed is caught and logged
\* with that entry, main goes on to the next entry or region, and what comes
\* next is processed: the run does not end there by an exception.
C3_EntryExceptionNeverHaltsTheBatch ==
    [][ /\ (pc = "gate" /\ ret.kind = "raise")
            => /\ LoggedNext(Rec("error", "entry_error:" \o ret.exc, pasta_uri))
               /\ pc' = AfterEntry.pc /\ ri' = AfterEntry.ri /\ ei' = AfterEntry.ei
        /\ (EntryRaisedLogged /\ ~RunEnded) => pc' # "crashed" ]_vars

\* The part of C3 the code does meet: the exception is caught and logged with
\* the entry, and main goes on to the next entry or region.
C3_EntryExceptionIsCaught ==
    [][ (pc = "gate" /\ ret.kind = "raise")
            => /\ LoggedNext(Rec("error", "entry_error:" \o ret.exc, pasta_uri))
               /\ pc' = AfterEntry.pc /\ ri' = AfterEntry.ri /\ ei' = AfterEntry.ei ]_vars

\* C4: a Metadata Fetcher invocation whose fetch fails, whose document does
\* not parse, or whose document holds none of the tags hands None to its
\* caller, without raising, and logs the message of that case.
C4_FetcherFailuresReturnAbsent ==
    [][ /\ FetchFail => (ret' = None /\ LoggedMsgNext("error", "fetch_fail"))
        /\ (Parse /\ ~scratch.doc.wf) => (ret' = None /\ LoggedMsgNext("error", "parse_fail"))
        /\ (Parse /\ scratch.doc.wf /\ PresentTags(scratch.doc) = {})
              => (ret' = None /\ LoggedMsgNext("warning", "no_tags")) ]_vars

\* The two cases of C4 the code does meet: parse failure and no tag found.
C4_ParseFailuresReturnAbsent ==
    [][ /\ (Parse /\ ~scratch.doc.wf) => (ret' = None /\ LoggedMsgNext("error", "parse_fail"))
        /\ (Parse /\ scratch.doc.wf /\ PresentTags(scratch.doc) = {})
              => (ret' = None /\ LoggedMsgNext("warning", "no_tags")) ]_vars

\* C5: when get_cloud_cover has handed main a value c for an entry that is
\* in the window and has no local path, the copy is invoked for that entry
\* if and only if c <= 30.0 (300 tenths): main goes to download_folder, whose
\* next step is the invocation, exactly then.
C5_CopyIffCoverAtMostThreshold ==
    [][ /\ (pc = "gate" /\ ret.kind = "value")
            => /\ (ret.v <= 300) <=> (pc' = "copy" /\ ei' = ei /\ ri' = ri)
               /\ calls' = calls
        /\ pc = "copy" => (Invoked("cp") /\ calls'[Len(calls')].src = pasta_uri)
        /\ Invoked("cp") => (pc = "copy" /\ ret.kind = "value" /\ ret.v <= 300) ]_vars

\* 30.0 has been accepted: the copy of that entry is about to be invoked.
C5_Witness == pc = "copy" /\ ret.kind = "value" /\ ret.v = 300

\* The cloud cover of the entry being checked is unknown: the fetch failed,
\* or the document is not well-formed, holds none of the tags, or the first
\* tag it holds has no number as its text.
CoverUnknown ==
    \/ ~(scratch.exists /\ scratch.owner = pasta_uri)
    \/ ~scratch.doc.wf
    \/ PresentTags(scratch.doc) = {}
    \/ LET text == scratch.doc.elems[cloud_tags_to_try[FirstTag(scratch.doc)]]
       IN  text = NoText \/ ~IsDecimal(text)

\* C6: an entry whose cloud cover is unknown is never downloaded: the
\* fetcher hands main no value for it, main leaves the entry without going to
\* download_folder, and no copy is invoked but from download_folder with a
\* value in hand.
C6_UnknownCoverNeverCopied ==
    /\ [](pc = "finally" /\ CoverUnknown => ret.kind # "value")
    /\ [][ /\ pc = "finally" => (ret' = ret /\ calls' = calls)
           /\ (pc = "gate" /\ ret.kind # "value") => (pc' # "copy" /\ calls' = calls)
           /\ Invoked("cp") => (pc = "copy" /\ ret.kind = "value") ]_vars

\* A document without any of the tags was fetched and main passed the entry over.
C6_Witness ==
    /\ LoggedMsg("warning", "cover_unknown")
    /\ \A i \in 1..Len(calls) : calls[i].op # "cp"
    /\ \E i \in 1..Len(calls) : calls[i].op = "fetch"

\* The entries between fetch and copy: get_cloud_cover or download_folder is
\* at work on pasta_uri.
AtWork == pc \in {"fetch", "parse", "finally", "gate", "copy"}

\* C7: no fetch and no copy is invoked for a listed entry whose date is not
\* in the Date Window of the run.
C7_OutOfWindowNeverFetchedNorCopied ==
    /\ \A i \in 1..Len(calls) :
          calls[i].op \in {"fetch", "cp"}
              => DateOfName(NomePasta(FolderOf(calls[i]))) \in datas_recentes
    /\ AtWork => DateOfName(NomePasta(pasta_uri)) \in datas_recentes

\* A folder dated 15 days back was listed first and passed over without any
\* invocation; the next entry is being processed.
C7_Witness ==
    /\ pc = "entry"
    /\ ei = 2
    /\ DateOfName(NomePasta(pastas_disponiveis[1])) = Strftime(today - 15)
    /\ Len(calls) = 1

\* C8: no fetch and no copy is invoked for an entry whose local destination
\* path exists, whatever left the path there.
C8_ExistingPathNeverFetchedNorCopied ==
    [][ (Invoked("fetch") \/ Invoked("cp"))
           => PathJoin(LocalBase(codigo), NomePasta(FolderOf(calls'[Len(calls')]))) \notin fs ]_vars

\* In a later run, an entry whose path a failed copy left behind is skipped.
C8_Witness ==
    /\ run > 1
    /\ \E p \in incomplete : Logged(Rec("info", "exists_skip", p))
    /\ \A i \in 1..Len(calls) : calls[i].op = "ls"

\* C9: a run that starts with the local path of every candidate on disk
\* invokes no copy.
C9_PopulatedRunCopiesNothing ==
    populated => (pc # "copy" /\ \A i \in 1..Len(calls) : calls[i].op # "cp")

\* The second run over a populated tree has come to its end.
C9_Witness == run = 2 /\ populated /\ pc = "done"

\* C10: when get_cloud_cover has returned or raised, the scratch file is not
\* on disk, and nothing outside get_cloud_cover puts it there.
C10_ScratchFileGoneAfterFetcher ==
    /\ [](pc = "gate" => ~scratch.exists)
    /\ [][(~scratch.exists /\ pc' \notin {"parse", "finally"}) => ~scratch'.exists]_vars

\* get_cloud_cover raised on a text that is no number, with the file removed.
C10_Witness == pc = "gate" /\ ret.kind = "raise" /\ ret.exc = "ValueError" /\ ~scratch.exists

\* C11: when check_gcloud_availability finds no tool, main reports it and
\* returns without raising: the run has made no listing, fetch or copy
\* invocation, has entered no region and has touched neither the local tree
\* nor the scratch file, and nothing of that run follows.
C11_MissingToolEndsTheRunAtOnce ==
    /\ [](pc = "returned" => /\ calls = <<>>
                             /\ ri = 0
                             /\ ei = 0
                             /\ pastas_disponiveis = <<>>
                             /\ datas_recentes = {})
    /\ [][ /\ (pc = "main" /\ LoggedMsgNext("error", "gcloud_missing"))
                => (pc' = "returned" /\ UNCHANGED <<calls, ri, ei, fs, incomplete, scratch>>)
           /\ pc = "returned" => (pc' = "main" /\ run' = run + 1) ]_vars

\* The tool was missing: the run is over with the report in the log and no
\* invocation made.
C11_Witness == pc = "returned" /\ LoggedMsg("error", "gcloud_missing") /\ calls = <<>>

\* The text of the candidate field that comes first in the priority list
\* among those the document holds (Absent: it holds none).
PriorityText(doc) ==
    IF doc.elems["Cloud_Coverage_Assessment"] # Absent
    THEN doc.elems["Cloud_Coverage_Assessment"]
    ELSE IF doc.elems["CLOUDY_PIXEL_OVER_LAND_PERCENTAGE"] # Absent
    THEN doc.elems["CLOUDY_PIXEL_OVER_LAND_PERCENTAGE"]
    ELSE doc.elems["CLOUDY_PIXEL_PERCENTAGE"]

\* The numbers the element texts denote, in tenths of a percent.
Tenths(text) ==
    CASE text = T125 -> 125
      [] text = T300 -> 300
      [] text = T301 -> 301
      [] text = T999 -> 999
      [] OTHER -> -1

\* C12: for every combination of candidate fields a fetched, well-formed
\* document holds, get_cloud_cover returns the value of the field that comes
\* first in the priority list, and never the value of a field further down
\* the list.
C12_FirstFieldOfThePriorityListWins ==
    [][ pc = "parse"
          => LET text == PriorityText(scratch.doc)
             IN  /\ Tenths(text) >= 0 => ret' = Value(Tenths(text))
                 /\ ret'.kind = "value" => ret'.v = Tenths(text) ]_vars

\* The first field is missing, the second holds 30.0 and the third 99.9: 30.0
\* has been returned.
C12_Witness ==
    /\ pc = "finally"
    /\ scratch.exists
    /\ scratch.doc = Doc(Absent, T300, T999)
    /\ ret = Value(300)

\* The name holds eight digits in a row with the letter T right after them.
HasDateStamp(nome) ==
    \E i \in 1..Len(nome) :
        /\ i + 8 <= Len(nome)
        /\ \A k \in 0..7 : IsDigit(nome[i + k])
        /\ nome[i + 8] = "T"

NoErrorLoggedNext == \A i \in 1..Len(log') : log'[i].level # "error"

\* C13: a listed entry whose folder name holds no eight digits followed by T
\* is passed over without error: the step that handles it creates no
\* directory, makes no fetch and no copy invocation, logs no error, and
\* leaves main at the next entry (or, after the last one, the next region).
C13_UndatedEntryIsSkippedWithoutError ==
    [][ (pc = "entry" /\ ~HasDateStamp(NomePasta(pasta_uri)))
          => /\ fs' = fs
             /\ calls' = calls
             /\ scratch' = scratch
             /\ NoErrorLoggedNext
             /\ pc' = AfterEntry.pc /\ ri' = AfterEntry.ri /\ ei' = AfterEntry.ei ]_vars

\* The first folder listed had seven digits before its T: main is at the
\* second one, with the listing the only invocation made and nothing created.
C13_Witness ==
    /\ pc = "entry"
    /\ ei = 2
    /\ run = 1
    /\ ~HasDateStamp(NomePasta(pastas_disponiveis[1]))
    /\ Len(calls) = 1
    /\ \A r \in 1..Len(codigos) : LocalBase(codigos[r]) \notin fs

\* <output-root>/<zone>/<band>/<square>
RegionDirectory(c) == <<"Output_GCS", "/", c[1], "/", c[2], "/", c[3]>>

\* C14: an entry that has come to the gate with a measured cover of at most
\* 30.0 (it is in the window and has no local path) gets exactly one copy
\* invocation in the run: main goes to download_folder, whose one step invokes
\* the copy of that entry into <output-root>/<zone>/<band>/<square> and leaves
\* the entry; no entry is copied twice, and no copy is invoked anywhere else.
\* For region 23,K,RT that directory is Output_GCS/23/K/RT.
C14_AcceptedEntryCopiedOnceIntoRegionDirectory ==
    /\ [](/\ AllCodigos[10] = <<"23", "K", "RT">>
          /\ NormPath(LocalBase(AllCodigos[10])) = <<"Output_GCS", "/", "23", "/", "K", "/", "RT">>)
    /\ [](\A i, j \in 1..Len(calls) :
             (i < j /\ calls[i].op = "cp" /\ calls[j].op = "cp") => calls[i].src # calls[j].src)
    /\ [][ /\ (pc = "gate" /\ ret.kind = "value" /\ ret.v <= 300)
                => (pc' = "copy" /\ ri' = ri /\ ei' = ei /\ calls' = calls)
           /\ pc = "copy"
                => /\ calls' = Append(calls, [op |-> "cp", src |-> pasta_uri,
                                               dst |-> RegionDirectory(codigos[ri])])
                   /\ pc' = AfterEntry.pc /\ ri' = AfterEntry.ri /\ ei' = AfterEntry.ei
           /\ Invoked("cp") => pc = "copy" ]_vars

\* The first region's first folder has just been copied: listing, fetch and
\* one copy into Output_GCS/23/K/NQ.
C14_Witness ==
    /\ Len(calls) = 3
    /\ calls[3].op = "cp"
    /\ calls[3].src = pastas_disponiveis[1]
    /\ calls[3].dst = <<"Output_GCS", "/", "23", "/", "K", "/", "NQ">>
    /\ LoggedMsg("info", "download_ok")

\* The calendar, on date strings YYYYMMDD: the lengths of the months and the
\* day before a date.
MonthLengths == <<31, 28, 31, 30, 31, 30, 31, 31, 30, 31, 30, 31>>

MonthLength(y, m) ==
    IF m = 2 /\ (y % 400 = 0 \/ (y % 4 = 0 /\ y % 100 # 0)) THEN 29 ELSE MonthLengths[m]

DateString(y, m, d) == Digits(y, 4) \o Digits(m, 2) \o Digits(d, 2)

DayBefore(s) ==
    LET y == IntOf(SubSeq(s, 1, 4))
        m == IntOf(SubSeq(s, 5, 6))
        d == IntOf(SubSeq(s, 7, 8))
    IN  IF d > 1 THEN DateString(y, m, d - 1)
        ELSE IF m > 1 THEN DateString(y, m - 1, MonthLength(y, m - 1))
        ELSE DateString(y - 1, 12, 31)

DayAfter(s) ==
    LET y == IntOf(SubSeq(s, 1, 4))
        m == IntOf(SubSeq(s, 5, 6))
        d == IntOf(SubSeq(s, 7, 8))
    IN  IF d < MonthLength(y, m) THEN DateString(y, m, d + 1)
        ELSE IF m < 12 THEN DateString(y, m + 1, 1)
        ELSE DateString(y + 1, 1, 1)

\* The date k days before s, and the date k days after s.
RECURSIVE DaysBack(_, _)
DaysBack(s, k) == IF k = 0 THEN s ELSE DayBefore(DaysBack(s, k - 1))

RECURSIVE DaysOn(_, _)
DaysOn(s, k) == IF k = 0 THEN s ELSE DayAfter(DaysOn(s, k - 1))

\* Day ordinals whose dates are known: the first days of some months.
KnownDays ==
    { [n |-> 0, y |-> 2023, m |-> 1], [n |-> 31, y |-> 2023, m |-> 2], [n |-> 59, y |-> 2023, m |-> 3],
      [n |-> 334, y |-> 2023, m |-> 12], [n |-> 365, y |-> 2024, m |-> 1],
      [n |-> 396, y |-> 2024, m |-> 2], [n |-> 425, y |-> 2024, m |-> 3] }

\* The date the clock shows on day ordinal n, counted on from the last known
\* day that is not after it.
DateOn(n) ==
    LET k == CHOOSE a \in KnownDays : a.n <= n /\ \A b \in KnownDays : b.n <= n => b.n <= a.n
    IN  DaysOn(DateString(k.y, k.m, 1), n - k.n)

\* C15: the Date Window computed for N days on any day holds exactly N
\* distinct dates: that day, the day N-1 days before it, every calendar day
\* in between, and no other date.
C15_WindowIsTheLastNDays ==
    [][ (pc = "main" /\ pc' = "list")
          => LET current == DateOn(today)
             IN  /\ Cardinality(datas_recentes') = num_days
                 /\ current \in datas_recentes'
                 /\ DaysBack(current, num_days - 1) \in datas_recentes'
                 /\ datas_recentes' = {DaysBack(current, i) : i \in 0..(num_days - 1)} ]_vars

\* On 2024-03-01 the window of two days is the first of March and the leap day.
C15_Witness ==
    /\ pc = "list"
    /\ today = 425
    /\ num_days = 2
    /\ datas_recentes = { <<"2", "0", "2", "4", "0", "3", "0", "1">>,
                          <<"2", "0", "2", "4", "0", "2", "2", "9">> }

\* What C16 says of the failing copy itself and of the entry it was for.
CopyFailureIsPassed ==
    /\ CopyFail
          => /\ LoggedNext(Rec("error", "download_fail", pasta_uri))
             /\ Invoked("cp")
             /\ pc' = AfterEntry.pc /\ ri' = AfterEntry.ri /\ ei' = AfterEntry.ei
    /\ \A i, j \in 1..Len(calls') :
          (i < j /\ calls'[i].op = "cp" /\ calls'[j].op = "cp") => calls'[i].src # calls'[j].src
    /\ run' = run + 1
          => /\ fs' = fs
             /\ <<pc', ri', ei', pastas_disponiveis', ret', log', calls'>>
                   = <<"main", 0, 0, <<>>, None, <<>>, <<>>>>
    /\ (pc = "entry" /\ DateOfName(nome_pasta) \in datas_recentes)
          => IF caminho_local_final \in fs
             THEN LoggedNext(Rec("info", "exists_skip", caminho_local_final)) /\ calls' = calls
             ELSE pc' = "fetch" \/ LoggedNext(Rec("error", "entry_error:OSError", pasta_uri))

\* C16: a copy that exits non-zero is logged and main goes on to the next
\* entry or region, and what comes next is processed: the run does not end
\* there by an exception.  The copy is not invoked again for that entry in the
\* run, and a later run, which starts with nothing but the local tree carried
\* over, skips the entry if its local path is there and checks it anew if not.
C16_CopyFailureNeverHaltsTheBatch ==
    [][ /\ CopyFailureIsPassed
        /\ (LoggedMsg("error", "download_fail") /\ ~RunEnded) => pc' # "crashed" ]_vars

\* The part of C16 the code does meet: all of it but that the regions after a
\* failed copy are always processed.
C16_CopyFailureIsLoggedAndPassed == [][CopyFailureIsPassed]_vars

\* A step puts the local directory of some configured region on disk.
RegionDirectoryMade == \E r \in 1..Len(codigos) : LocalBase(codigos[r]) \notin fs /\ LocalBase(codigos[r]) \in fs'

\* C17: the region's local directory structure is created only once the
\* entry has been accepted by the Selection Filter (cover at most 30.0 in
\* hand), so an entry that ends skipped or rejected causes no directory
\* creation.
C17_DirectoryMadeOnlyOnAcceptance ==
    [][ RegionDirectoryMade
          => (pc \in {"gate", "copy"} /\ ret.kind = "value" /\ ret.v <= 300) ]_vars

\* C17 as the code has it: the region's directory structure is made when an
\* entry is found to be in the Date Window, before the existence check and
\* the cloud-cover gate, so it is on disk whenever the fetcher or the copier
\* is at work; no other step of main makes it, and an entry passed over for
\* its date makes nothing.
C17_DirectoryMadeOnceInWindow ==
    /\ [](AtWork => /\ <<"Output_GCS", "/", codigos[ri][1]>> \in fs
                    /\ <<"Output_GCS", "/", codigos[ri][1], "/", codigos[ri][2]>> \in fs
                    /\ RegionDirectory(codigos[ri]) \in fs)
    /\ [][ /\ RegionDirectoryMade
                => /\ pc = "entry"
                   /\ DateOfName(nome_pasta) \in datas_recentes
                   /\ pc' \in {"fetch", "entry", "list", "done"}
                   /\ calls' = calls
                   /\ LocalBase(codigos[ri]) \in fs'
           /\ (pc = "entry" /\ DateOfName(nome_pasta) \notin datas_recentes) => fs' = fs ]_vars

\* The first region's folder was turned away for its cloud cover, and the
\* region's directory is on disk with nothing in it.
C17_Witness ==
    /\ run = 1
    /\ ri = 1
    /\ LoggedMsg("info", "reject")
    /\ fs = { <<"Output_GCS">>, <<"Output_GCS", "/", "23">>, <<"Output_GCS", "/", "23", "/", "K">>,
              <<"Output_GCS", "/", "23", "/", "K", "/", "NQ">> }

\* The invocations made since a region's listing are for folders under the
\* prefix that was listed, and no two regions share a prefix.
CallsAreOfTheRegion ==
    /\ \A i \in 1..Len(calls) :
          IF i = 1
          THEN calls[i].op = "ls" /\ \E r \in 1..Len(codigos) : calls[i].src = UriBase(codigos[r])
          ELSE /\ calls[i].op \in {"fetch", "cp"}
               /\ SubSeq(calls[i].src, 1, Len(calls[1].src)) = calls[1].src
    /\ \A r1, r2 \in 1..Len(codigos) : r1 # r2 => UriBase(codigos[r1]) # UriBase(codigos[r2])

\* C18: in one run no folder is fetched twice and none is copied twice;
\* every copy comes right after the fetch of the same folder, with no other
\* invocation between them, and is made with the value that fetch returned in
\* hand, which is at most 30.0.
C18_OneFetchThenAtMostOneCopy ==
    /\ [](CallsAreOfTheRegion)
    /\ [](\A i, j \in 1..Len(calls) :
             (i < j /\ calls[i].op = calls[j].op) => FolderOf(calls[i]) # FolderOf(calls[j]))
    /\ [](\A i \in 1..Len(calls) :
             calls[i].op = "cp"
                 => (i > 1 /\ calls[i - 1].op = "fetch" /\ FolderOf(calls[i - 1]) = calls[i].src))
    /\ [](pc \in {"parse", "finally", "gate", "copy"}
             => /\ calls[Len(calls)].op = "fetch"
                /\ FolderOf(calls[Len(calls)]) = pasta_uri)
    /\ [][ /\ (pc \in {"finally", "gate"} /\ pc' \in {"gate", "copy"})
                => (ret' = ret /\ ei' = ei /\ ri' = ri /\ calls' = calls)
           /\ Invoked("cp")
                => /\ calls'[Len(calls')].src = pasta_uri
                   /\ ret.kind = "value"
                   /\ ret.v <= 300 ]_vars

\* Two folders of a region were fetched, the first turned away or unknown,
\* the second copied: listing, fetch, fetch, copy.
C18_Witness ==
    /\ Len(calls) = 4
    /\ calls[2].op = "fetch"
    /\ calls[3].op = "fetch"
    /\ calls[4].op = "cp"
    /\ FolderOf(calls[3]) = calls[4].src

\* C19: get_cloud_cover parses the file at the scratch path only when its
\* own metadata copy for the entry has just succeeded and written it, a value
\* it returns is the one read from that file, and a fetch that fails returns
\* no value whatever file lies at the scratch path.
C19_ValueComesFromOwnFetch ==
    /\ [](pc = "parse"
             => /\ scratch.exists
                /\ scratch.owner = pasta_uri
                /\ calls[Len(calls)] = [op |-> "fetch", src |-> pasta_uri \o <<"MTD_MSIL2A.xml">>,
                                         dst |-> <<"tmp", "/", "MTD_MSIL2A.xml">>])
    /\ [][ /\ pc = "fetch" => IF pc' = "parse"
                               THEN scratch'.exists /\ scratch'.owner = pasta_uri /\ ret'.kind # "value"
                               ELSE scratch' = scratch /\ ret'.kind # "value"
           /\ (ret'.kind = "value" /\ ret' # ret)
                => /\ pc = "parse"
                   /\ scratch' = scratch
                   /\ ret'.v = Tenths(PriorityText(scratch.doc)) ]_vars

\* A file that is not this entry's lay at the scratch path, the fetch failed,
\* and get_cloud_cover is leaving without a value.
C19_Witness ==
    /\ pc = "finally"
    /\ scratch.exists
    /\ scratch.owner # pasta_uri
    /\ Tenths(PriorityText(scratch.doc)) = 125
    /\ ret.kind # "value"

====
